---- MODULE Spec2Model ----
(***************************************************************************)
(* Refund administration of payment/admin.py: the six bulk actions of      *)
(* RefundRequestAdmin acting on RefundRequest / RefundItem rows.           *)
(*                                                                         *)
(* One action of the model is one run of one bulk action on an             *)
(* administrator-selected queryset, from the first row to the final        *)
(* message_user call (or to the exception that leaves the handler).        *)
(* The three helpers of payment/models.py are not part of the sources at   *)
(* hand; they are modelled from their documented contract and may raise.   *)
(***************************************************************************)
EXTENDS Integers, Sequences, FiniteSets, TLC

\* ---------------------------------------------------------------- bounds
NumRefunds == 2     \* RefundRequest rows in the database
NumItems == 3       \* RefundItem rows in the database
MaxRewards == 1     \* largest rewards_used of a request
MaxClock == 4       \* bulk actions run in one behaviour (timezone.now() values)
NumAdmins == 2      \* administrators whose requests are served at the same time

Refunds == 1..NumRefunds
Items == 1..NumItems
Admins == 1..NumAdmins

\* a timestamp field that is NULL
None == 0

STATUS_CHOICES ==
    {"PENDING_RETURN", "PRODUCT_RECEIVED", "PROCESSING_REFUND", "COMPLETED", "REJECTED"}

\* RefundItem.refund_request: the request an item belongs to (fixed at creation)
refund_request(i) == ((i - 1) % NumRefunds) + 1

\* refund.items.all()
items(refund) == {i \in Items : refund_request(i) = refund}

VARIABLES
    status,               \* RefundRequest.status
    product_received_at,  \* RefundRequest.product_received_at (None or a time)
    refund_completed_at,  \* RefundRequest.refund_completed_at (None or a time)
    user,                 \* RefundRequest.user is set (FALSE: guest order)
    rewards_used,         \* RefundRequest.rewards_used
    condition_acceptable, \* RefundItem.condition_acceptable
    restocked,            \* RefundItem.restocked
    stock_added,          \* helper side: times the item's inventory was increased
    rewards_restored,     \* helper side: used rewards already credited back
    rewards_credit,       \* helper side: amount credited back to the customer
    earned_deducted,      \* helper side: times earned rewards were deducted
    now,                  \* timezone.now()
    action,               \* the bulk action that ran last
    selected,             \* the requests of its queryset
    updated,              \* its counter (updated / restocked_count)
    counts,               \* the four counters of restore_rewards_goodwill
    message_log,          \* its message_user calls, in order
    helper_calls,         \* its helper invocations, in order
    raised,               \* it ended with an exception leaving the handler
    before,               \* the rows as they were when it started
    inflight              \* per administrator: the handler in progress, if any

dbvars == <<status, product_received_at, refund_completed_at, user, rewards_used,
            condition_acceptable, restocked, stock_added, rewards_restored,
            rewards_credit, earned_deducted>>
runvars == <<action, selected, updated, counts, message_log, helper_calls, raised, before>>
vars == <<dbvars, now, runvars, inflight>>

\* the mutable rows as one value
DB ==
    [status |-> status,
     product_received_at |-> product_received_at,
     refund_completed_at |-> refund_completed_at,
     condition_acceptable |-> condition_acceptable,
     restocked |-> restocked,
     stock_added |-> stock_added,
     rewards_restored |-> rewards_restored,
     rewards_credit |-> rewards_credit,
     earned_deducted |-> earned_deducted]

Range(q) == {q[k] : k \in 1..Len(q)}

\* a queryset of the admin changelist: the selected rows, each once, in some order
Querysets ==
    {q \in UNION {[1..n -> Refunds] : n \in 1..NumRefunds} :
        \A j, k \in 1..Len(q) : j # k => q[j] # q[k]}

\* ---------------------------------------------------------------- messages
Msg(level, text, arg) == [level |-> level, text |-> text, arg |-> arg, parts |-> <<>>]

\* one helper invocation: which helper, on which request, and whether it returned
Call(helper, refund, fails) ==
    [helper |-> helper, refund |-> refund, returned |-> refund \notin fails]

\* the local state of one run of a handler
NewRun(db) ==
    [db |-> db, updated |-> 0, msgs |-> <<>>, calls |-> <<>>, raised |-> FALSE,
     restored_count |-> 0, no_rewards_count |-> 0, already_restored_count |-> 0,
     guest_count |-> 0]

\* ---------------------------------------------------------------- helpers (payment/models.py)
\* Each helper either returns, with the effect below, or raises; a call that raises
\* is taken to leave the rows as they were.  Which calls raise is an input of the
\* action (fails).
\* mutation: the restocked flag is not consulted
restock_refunded_items_again(db, refund) ==
    LET todo == {i \in items(refund) : db.condition_acceptable[i]}
    IN [db EXCEPT !.stock_added = [i \in Items |-> IF i \in todo THEN @[i] + 1 ELSE @[i]],
                  !.restocked = [i \in Items |-> IF i \in todo THEN TRUE ELSE @[i]]]

\* restocks the acceptable items of the request that are not restocked yet
restock_refunded_items(db, refund) ==
    LET todo == {i \in items(refund) : db.condition_acceptable[i] /\ ~db.restocked[i]}
    IN [db EXCEPT !.stock_added = [i \in Items |-> IF i \in todo THEN @[i] + 1 ELSE @[i]],
                  !.restocked = [i \in Items |-> IF i \in todo THEN TRUE ELSE @[i]]]

\* deducts the rewards the customer earned on the refunded items
process_rewards_refund(db, refund) ==
    [db EXCEPT !.earned_deducted[refund] = @ + 1]

\* TRUE iff the used rewards are credited back by this call
restore_used_rewards_result(db, refund) == ~db.rewards_restored[refund]

restore_used_rewards(db, refund) ==
    IF db.rewards_restored[refund]
    THEN db
    ELSE [db EXCEPT !.rewards_restored[refund] = TRUE,
                    !.rewards_credit[refund] = @ + rewards_used[refund]]

\* ---------------------------------------------------------------- mark_product_received
\* mutation: the status filter is dropped
MarkFilterAll(db, q) == q

MarkFilter(db, q) == SelectSeq(q, LAMBDA r : db.status[r] = "PENDING_RETURN")

MarkSave(db, refund, t) ==
    [db EXCEPT !.status[refund] = "PRODUCT_RECEIVED",
               !.product_received_at[refund] = t]

\* mutation: the items are not updated
MarkItemsUpdateNone(db, refund) == db

MarkItemsUpdate(db, refund) ==
    [db EXCEPT !.condition_acceptable =
        [i \in Items |-> IF i \in items(refund) THEN TRUE ELSE @[i]]]

MarkRestock(run, refund, fails) ==
    LET called == [run EXCEPT !.calls = Append(@, Call("restock_refunded_items", refund, fails))]
    IN IF refund \in fails
       THEN [called EXCEPT !.msgs =
                Append(@, Msg("ERROR", "Error restocking items for refund", refund))]
       ELSE [called EXCEPT !.db = restock_refunded_items(@, refund)]

\* mutation: updated += 1 moved into the try block
MarkBodyCountsRestocked(run, refund, fails, t) ==
    LET saved == [run EXCEPT !.db = MarkItemsUpdate(MarkSave(@, refund, t), refund)]
        tried == MarkRestock(saved, refund, fails)
    IN IF refund \in fails THEN tried ELSE [tried EXCEPT !.updated = @ + 1]

MarkBody(run, refund, fails, t) ==
    LET saved == [run EXCEPT !.db = MarkItemsUpdate(MarkSave(@, refund, t), refund)]
        tried == MarkRestock(saved, refund, fails)
    IN [tried EXCEPT !.updated = @ + 1]

\* mutation: the loop ends at the first restock error
RECURSIVE MarkLoopBreak(_, _, _, _)
MarkLoopBreak(run, rows, fails, t) ==
    IF rows = <<>> \/ (\E k \in 1..Len(run.calls) : ~run.calls[k].returned) THEN run
    ELSE MarkLoopBreak(MarkBody(run, Head(rows), fails, t), Tail(rows), fails, t)

RECURSIVE MarkLoop(_, _, _, _)
MarkLoop(run, rows, fails, t) ==
    IF rows = <<>> THEN run
    ELSE MarkLoop(MarkBody(run, Head(rows), fails, t), Tail(rows), fails, t)

MarkMessage(run) ==
    [run EXCEPT !.msgs =
        Append(@, Msg("SUCCESS", "refund(s) marked as product received and items restocked.",
                      run.updated))]

mark_product_received(db, q, fails, t) ==
    MarkMessage(MarkLoop(NewRun(db), MarkFilter(db, q), fails, t))

\* ---------------------------------------------------------------- manual_restock_items
\* mutation: the status filter is dropped
ManualFilterAll(db, q) == q

ManualFilter(db, q) ==
    SelectSeq(q, LAMBDA r : db.status[r] \in {"PRODUCT_RECEIVED", "PROCESSING_REFUND", "COMPLETED"})

\* mutation: restocked_count += 1 moved behind the try block
ManualBodyCountsCalls(run, refund, fails) ==
    LET called == [run EXCEPT !.calls = Append(@, Call("restock_refunded_items", refund, fails)),
                              !.updated = @ + 1]
    IN IF refund \in fails
       THEN [called EXCEPT !.msgs =
                Append(@, Msg("ERROR", "Error restocking items for refund", refund))]
       ELSE [called EXCEPT !.db = restock_refunded_items(@, refund)]

ManualBody(run, refund, fails) ==
    LET called == [run EXCEPT !.calls = Append(@, Call("restock_refunded_items", refund, fails))]
    IN IF refund \in fails
       THEN [called EXCEPT !.msgs =
                Append(@, Msg("ERROR", "Error restocking items for refund", refund))]
       ELSE [called EXCEPT !.db = restock_refunded_items(@, refund),
                           !.updated = @ + 1]

RECURSIVE ManualLoop(_, _, _)
ManualLoop(run, rows, fails) ==
    IF rows = <<>> THEN run
    ELSE ManualLoop(ManualBody(run, Head(rows), fails), Tail(rows), fails)

ManualMessage(run) ==
    IF run.updated > 0
    THEN [run EXCEPT !.msgs =
            Append(@, Msg("SUCCESS", "Manually restocked items for refund(s).", run.updated))]
    ELSE [run EXCEPT !.msgs =
            Append(@, Msg("WARNING", "No items were restocked.", 0))]

manual_restock_items(db, q, fails) ==
    ManualMessage(ManualLoop(NewRun(db), ManualFilter(db, q), fails))

\* ---------------------------------------------------------------- process_paypal_refund
\* mutation: the status filter is dropped
PaypalFilterAll(db, q) == q

PaypalFilter(db, q) == SelectSeq(q, LAMBDA r : db.status[r] = "PRODUCT_RECEIVED")

PaypalBody(run, refund) ==
    [run EXCEPT !.db.status[refund] = "PROCESSING_REFUND",
                !.updated = @ + 1]

RECURSIVE PaypalLoop(_, _)
PaypalLoop(run, rows) ==
    IF rows = <<>> THEN run
    ELSE PaypalLoop(PaypalBody(run, Head(rows)), Tail(rows))

PaypalMessage(run) ==
    [run EXCEPT !.msgs =
        Append(@, Msg("WARNING", "refund(s) marked as processing.", run.updated))]

process_paypal_refund(db, q) ==
    PaypalMessage(PaypalLoop(NewRun(db), PaypalFilter(db, q)))

\* ---------------------------------------------------------------- complete_refund
\* mutation: COMPLETED requests pass the filter as well
CompleteFilterWithCompleted(db, q) ==
    SelectSeq(q, LAMBDA r : db.status[r] \in {"PROCESSING_REFUND", "COMPLETED"})

CompleteFilter(db, q) == SelectSeq(q, LAMBDA r : db.status[r] = "PROCESSING_REFUND")

\* mutation: the guest check is dropped
CompleteCallsHelperAlways(refund) == TRUE

\* if refund.user: the helper is called for registered users only
CompleteCallsHelper(refund) == user[refund]

\* mutation: refund_completed_at is not stamped
CompleteSaveNoStamp(run, refund, t) ==
    [run EXCEPT !.db.status[refund] = "COMPLETED",
                !.updated = @ + 1]

CompleteSave(run, refund, t) ==
    [run EXCEPT !.db.status[refund] = "COMPLETED",
                !.db.refund_completed_at[refund] = t,
                !.updated = @ + 1]

\* mutation: the continue is dropped
CompleteOnErrorSaves(run, refund, t) ==
    CompleteSave([run EXCEPT !.msgs =
        Append(@, Msg("ERROR", "Error processing rewards for refund", refund))], refund, t)

\* the except branch: report the error and go on with the next row
CompleteOnError(run, refund, t) ==
    [run EXCEPT !.msgs =
        Append(@, Msg("ERROR", "Error processing rewards for refund", refund))]

CompleteBody(run, refund, fails, t) ==
    IF CompleteCallsHelper(refund)
    THEN LET called == [run EXCEPT !.calls = Append(@, Call("process_rewards_refund", refund, fails))]
         IN IF refund \in fails
            THEN CompleteOnError(called, refund, t)
            ELSE CompleteSave([called EXCEPT !.db = process_rewards_refund(@, refund)],
                              refund, t)
    ELSE CompleteSave(run, refund, t)

RECURSIVE CompleteLoop(_, _, _, _)
CompleteLoop(run, rows, fails, t) ==
    IF rows = <<>> THEN run
    ELSE CompleteLoop(CompleteBody(run, Head(rows), fails, t), Tail(rows), fails, t)

CompleteMessage(run) ==
    [run EXCEPT !.msgs =
        Append(@, Msg("SUCCESS", "refund(s) completed successfully.", run.updated))]

complete_refund(db, q, fails, t) ==
    CompleteMessage(CompleteLoop(NewRun(db), CompleteFilter(db, q), fails, t))

\* ---------------------------------------------------------------- reject_refund
\* mutation: only REJECTED is excluded
RejectFilterKeepsCompleted(db, q) ==
    SelectSeq(q, LAMBDA r : db.status[r] \notin {"REJECTED"})

RejectFilter(db, q) ==
    SelectSeq(q, LAMBDA r : db.status[r] \notin {"COMPLETED", "REJECTED"})

\* mutation: the update runs on the whole table, not on the selection
RejectUpdateWholeTable(run, rows) ==
    LET all == {r \in Refunds : run.db.status[r] \notin {"COMPLETED", "REJECTED"}}
    IN [run EXCEPT !.db.status = [r \in Refunds |-> IF r \in all THEN "REJECTED" ELSE @[r]],
                   !.updated = Cardinality(all)]

\* QuerySet.update(status='REJECTED'): one statement, returns the rows matched
RejectUpdate(run, rows) ==
    [run EXCEPT !.db.status = [r \in Refunds |-> IF r \in Range(rows) THEN "REJECTED" ELSE @[r]],
                !.updated = Len(rows)]

RejectMessage(run) ==
    [run EXCEPT !.msgs =
        Append(@, Msg("WARNING", "refund(s) rejected.", run.updated))]

reject_refund(db, q) ==
    RejectMessage(RejectUpdate(NewRun(db), RejectFilter(db, q)))

\* ---------------------------------------------------------------- restore_rewards_goodwill
\* mutation: the helper's result is ignored
RestoreCountAlwaysRestored(run, success) ==
    [run EXCEPT !.restored_count = @ + 1]

\* if success: ... else: ...
RestoreCount(run, success) ==
    IF success
    THEN [run EXCEPT !.restored_count = @ + 1]
    ELSE [run EXCEPT !.already_restored_count = @ + 1]

\* restore_used_rewards(refund) is called outside any try block
RestoreCall(run, refund, fails) ==
    LET called == [run EXCEPT !.calls = Append(@, Call("restore_used_rewards", refund, fails))]
    IN IF refund \in fails
       THEN [called EXCEPT !.raised = TRUE]
       ELSE RestoreCount([called EXCEPT !.db = restore_used_rewards(@, refund)],
                         restore_used_rewards_result(run.db, refund))

\* mutation: the rewards_used check is dropped
RestoreBodyNoRewardsCheck(run, refund, fails) ==
    IF ~user[refund]
    THEN [run EXCEPT !.guest_count = @ + 1]
    ELSE RestoreCall(run, refund, fails)

RestoreBody(run, refund, fails) ==
    IF ~user[refund]
    THEN [run EXCEPT !.guest_count = @ + 1]
    ELSE IF rewards_used[refund] <= 0
    THEN [run EXCEPT !.no_rewards_count = @ + 1]
    ELSE RestoreCall(run, refund, fails)

RECURSIVE RestoreLoop(_, _, _)
RestoreLoop(run, rows, fails) ==
    IF rows = <<>> \/ run.raised THEN run
    ELSE RestoreLoop(RestoreBody(run, Head(rows), fails), Tail(rows), fails)

\* sum([r.rewards_used for r in queryset if r.user and r.rewards_used > 0])
RECURSIVE RestoreSum(_)
RestoreSum(q) ==
    IF q = <<>> THEN 0
    ELSE (IF user[Head(q)] /\ rewards_used[Head(q)] > 0 THEN rewards_used[Head(q)] ELSE 0)
         + RestoreSum(Tail(q))

Part(text, n, amount) == [text |-> text, n |-> n, amount |-> amount]

RestoreMessagesList(run, q) ==
    (IF run.restored_count > 0
        THEN <<Part("customer(s) had rewards restored", run.restored_count, RestoreSum(q))>>
        ELSE <<>>)
    \o (IF run.already_restored_count > 0
        THEN <<Part("already had rewards restored", run.already_restored_count, 0)>>
        ELSE <<>>)
    \o (IF run.no_rewards_count > 0
        THEN <<Part("had no rewards used in original purchase", run.no_rewards_count, 0)>>
        ELSE <<>>)
    \o (IF run.guest_count > 0
        THEN <<Part("were guest orders (no rewards to restore)", run.guest_count, 0)>>
        ELSE <<>>)

RestoreMessage(run, q) ==
    IF run.raised THEN run
    ELSE IF run.restored_count > 0
    THEN [run EXCEPT !.msgs = Append(@,
            [level |-> "SUCCESS", text |-> "Rewards restored as goodwill gesture",
             arg |-> 0, parts |-> RestoreMessagesList(run, q)])]
    ELSE [run EXCEPT !.msgs = Append(@,
            [level |-> "WARNING", text |-> "No rewards restored",
             arg |-> 0, parts |-> RestoreMessagesList(run, q)])]

restore_rewards_goodwill(db, q, fails) ==
    RestoreMessage(RestoreLoop(NewRun(db), q, fails), q)

\* the rows on which the action calls a helper
RestoreCallers(q) == {r \in Range(q) : user[r] /\ rewards_used[r] > 0}

\* ---------------------------------------------------------------- state machine
\* what one run of a handler leaves behind: the rows and its messages
Effects(name, q, run) ==
    /\ status' = run.db.status
    /\ product_received_at' = run.db.product_received_at
    /\ refund_completed_at' = run.db.refund_completed_at
    /\ condition_acceptable' = run.db.condition_acceptable
    /\ restocked' = run.db.restocked
    /\ stock_added' = run.db.stock_added
    /\ rewards_restored' = run.db.rewards_restored
    /\ rewards_credit' = run.db.rewards_credit
    /\ earned_deducted' = run.db.earned_deducted
    /\ action' = name
    /\ selected' = Range(q)
    /\ updated' = run.updated
    /\ counts' = [restored_count |-> run.restored_count,
                  already_restored_count |-> run.already_restored_count,
                  no_rewards_count |-> run.no_rewards_count,
                  guest_count |-> run.guest_count]
    /\ message_log' = run.msgs
    /\ helper_calls' = run.calls
    /\ raised' = run.raised
    /\ before' = DB
    /\ now' = now + 1
    /\ UNCHANGED <<user, rewards_used>>

\* no handler in progress
Idle == [name |-> "idle", rows |-> <<>>, objects |-> <<>>, updated |-> 0]

\* a handler run from its first row to its message with no other request served
\* in between
Commit(name, q, run) ==
    /\ Effects(name, q, run)
    /\ UNCHANGED inflight

Init ==
    /\ status = [r \in Refunds |-> "PENDING_RETURN"]
    /\ product_received_at = [r \in Refunds |-> None]
    /\ refund_completed_at = [r \in Refunds |-> None]
    /\ user \in [Refunds -> BOOLEAN]
    /\ rewards_used \in [Refunds -> 0..MaxRewards]
    /\ condition_acceptable \in [Items -> BOOLEAN]
    /\ restocked = [i \in Items |-> FALSE]
    /\ stock_added = [i \in Items |-> 0]
    /\ rewards_restored = [r \in Refunds |-> FALSE]
    /\ rewards_credit = [r \in Refunds |-> 0]
    /\ earned_deducted = [r \in Refunds |-> 0]
    /\ now = 1
    /\ action = "none"
    /\ selected = {}
    /\ updated = 0
    /\ counts = [restored_count |-> 0, already_restored_count |-> 0,
                 no_rewards_count |-> 0, guest_count |-> 0]
    /\ message_log = <<>>
    /\ helper_calls = <<>>
    /\ raised = FALSE
    /\ before = DB
    /\ inflight = [a \in Admins |-> Idle]

\* each action: an administrator selects rows and runs one bulk action on them;
\* fails are the rows on which the helper raises when the action calls it
MarkProductReceived ==
    /\ now <= MaxClock
    /\ \E q \in Querysets : \E fails \in SUBSET Range(MarkFilter(DB, q)) :
        Commit("mark_product_received", q, mark_product_received(DB, q, fails, now))

ManualRestockItems ==
    /\ now <= MaxClock
    /\ \E q \in Querysets : \E fails \in SUBSET Range(ManualFilter(DB, q)) :
        Commit("manual_restock_items", q, manual_restock_items(DB, q, fails))

ProcessPaypalRefund ==
    /\ now <= MaxClock
    /\ \E q \in Querysets :
        Commit("process_paypal_refund", q, process_paypal_refund(DB, q))

CompleteRefund ==
    /\ now <= MaxClock
    /\ \E q \in Querysets : \E fails \in SUBSET Range(CompleteFilter(DB, q)) :
        Commit("complete_refund", q, complete_refund(DB, q, fails, now))

RejectRefund ==
    /\ now <= MaxClock
    /\ \E q \in Querysets :
        Commit("reject_refund", q, reject_refund(DB, q))

RestoreRewardsGoodwill ==
    /\ now <= MaxClock
    /\ \E q \in Querysets : \E fails \in SUBSET RestoreCallers(q) :
        Commit("restore_rewards_goodwill", q, restore_rewards_goodwill(DB, q, fails))

Next ==
    \/ MarkProductReceived
    \/ ManualRestockItems
    \/ ProcessPaypalRefund
    \/ CompleteRefund
    \/ RejectRefund
    \/ RestoreRewardsGoodwill

Spec == Init /\ [][Next]_vars

\* ---------------------------------------------------------------- two requests at a time
\* The three handlers that load rows and save them later, served for several
\* administrators at once: the queryset is evaluated when the for loop starts, each
\* iteration then works on the instance loaded at that time, and nothing locks the
\* rows in between.  reject_refund is a single UPDATE statement.
RaceActions == {"mark_product_received", "process_paypal_refund", "complete_refund"}

RaceFilter(name, db, q) ==
    CASE name = "mark_product_received" -> MarkFilter(db, q)
      [] name = "process_paypal_refund" -> PaypalFilter(db, q)
      [] OTHER -> CompleteFilter(db, q)

\* the rows of the evaluated queryset as instances in memory
RaceFetch(db, rows) ==
    [r \in Range(rows) |->
        [status |-> db.status[r],
         product_received_at |-> db.product_received_at[r],
         refund_completed_at |-> db.refund_completed_at[r]]]

\* refund.save() writes the fields of the instance in memory over the row
RaceInstance(db, obj, refund) ==
    [db EXCEPT !.status[refund] = obj.status,
               !.product_received_at[refund] = obj.product_received_at,
               !.refund_completed_at[refund] = obj.refund_completed_at]

RaceBody(name, run, refund, fails, t) ==
    CASE name = "mark_product_received" -> MarkBody(run, refund, fails, t)
      [] name = "process_paypal_refund" -> PaypalBody(run, refund)
      [] OTHER -> CompleteBody(run, refund, fails, t)

RaceMessage(name, run) ==
    CASE name = "mark_product_received" -> MarkMessage(run)
      [] name = "process_paypal_refund" -> PaypalMessage(run)
      [] OTHER -> CompleteMessage(run)

\* the rows on which the iteration calls a helper
RaceHelperRows(name, refund) ==
    CASE name = "mark_product_received" -> {refund}
      [] name = "process_paypal_refund" -> {}
      [] OTHER -> IF CompleteCallsHelper(refund) THEN {refund} ELSE {}

\* mutation: the iteration skips a row whose status is no longer the one loaded
RaceIterationChecked(name, db, obj, refund, fails, t, count) ==
    LET run0 == [NewRun(RaceInstance(db, obj, refund)) EXCEPT !.updated = count]
        run1 == RaceBody(name, run0, refund, fails, t)
    IN IF db.status[refund] # obj.status \/ run1.updated = count
       THEN [run0 EXCEPT !.db = db, !.msgs = run1.msgs, !.calls = run1.calls]
       ELSE run1

\* one iteration of the loop: the body on the loaded instance; the row is written
\* when the body reaches refund.save()
RaceIteration(name, db, obj, refund, fails, t, count) ==
    LET run0 == [NewRun(RaceInstance(db, obj, refund)) EXCEPT !.updated = count]
        run1 == RaceBody(name, run0, refund, fails, t)
    IN IF run1.updated > count THEN run1 ELSE [run1 EXCEPT !.db = db]

\* the handler starts: its queryset is evaluated; with no row to work on it ends
\* with its message at once
RaceRead(a) ==
    /\ inflight[a] = Idle
    /\ now <= MaxClock
    /\ \E name \in RaceActions : \E q \in Querysets :
        LET rows == RaceFilter(name, DB, q)
        IN IF rows = <<>>
           THEN Commit(name, <<>>, RaceMessage(name, NewRun(DB)))
           ELSE /\ inflight' = [inflight EXCEPT ![a] =
                        [name |-> name, rows |-> rows, objects |-> RaceFetch(DB, rows),
                         updated |-> 0]]
                /\ UNCHANGED <<dbvars, now, runvars>>

\* the handler's next iteration; after the last one it emits its message
\* (selected is the row of the iteration)
RaceWrite(a) ==
    /\ inflight[a] # Idle
    /\ now <= MaxClock
    /\ LET f == inflight[a]
           refund == Head(f.rows)
           last == Tail(f.rows) = <<>>
       IN \E fails \in SUBSET RaceHelperRows(f.name, refund) :
            LET run == RaceIteration(f.name, DB, f.objects[refund], refund, fails, now,
                                     f.updated)
            IN /\ Effects(f.name, <<refund>>,
                          IF last THEN RaceMessage(f.name, run) ELSE run)
               /\ inflight' = [inflight EXCEPT ![a] =
                        IF last THEN Idle
                        ELSE [f EXCEPT !.rows = Tail(@), !.updated = run.updated]]

RaceReadAny == \E a \in Admins : RaceRead(a)
RaceWriteAny == \E a \in Admins : RaceWrite(a)

NextRace ==
    \/ RaceReadAny
    \/ RaceWriteAny
    \/ RejectRefund

\* rewards_used plays no part in these handlers
InitRace ==
    /\ Init
    /\ rewards_used = [r \in Refunds |-> 0]

SpecRace == InitRace /\ [][NextRace]_vars

\* ================================================================ properties
Terminal(s) == s \in {"COMPLETED", "REJECTED"}

LastMessage(log) == log[Len(log)]

\* the time the last action stamped its rows with
ActionTime == now - 1

\* the requests for which the log holds an ERROR message
ErrorsIn(log) == {log[k].arg : k \in {j \in 1..Len(log) : log[j].level = "ERROR"}}

\* the requests a helper was invoked on, and those on which it raised
CalledOn(calls) == {calls[k].refund : k \in 1..Len(calls)}
RaisedOn(calls) == {calls[k].refund : k \in {j \in 1..Len(calls) : ~calls[j].returned}}

\* the fields of the request row, and its item rows, are as before the last action
RowUnchanged(r) ==
    /\ status[r] = before.status[r]
    /\ product_received_at[r] = before.product_received_at[r]
    /\ refund_completed_at[r] = before.refund_completed_at[r]
ItemsUnchanged(r) ==
    \A i \in items(r) :
        /\ condition_acceptable[i] = before.condition_acceptable[i]
        /\ restocked[i] = before.restocked[i]
        /\ stock_added[i] = before.stock_added[i]

\* C1: once a request is COMPLETED or REJECTED no bulk action changes its status;
\* reject_refund leaves a selected COMPLETED request as it was and counts only the
\* selected requests that were not terminal.
C1_TerminalAbsorbing ==
    /\ \A r \in Refunds : Terminal(before.status[r]) => status[r] = before.status[r]
    /\ action = "reject_refund" =>
        /\ \A r \in selected : before.status[r] = "COMPLETED" => RowUnchanged(r)
        /\ updated = Cardinality({r \in selected : ~Terminal(before.status[r])})
        /\ LastMessage(message_log).arg = updated

\* reject_refund has run on a selection of a COMPLETED request and one it rejected
C1_Witness ==
    /\ action = "reject_refund"
    /\ updated = 1
    /\ \E r \in selected : before.status[r] = "COMPLETED" /\ status[r] = "COMPLETED"
    /\ \E r \in selected : before.status[r] # "REJECTED" /\ status[r] = "REJECTED"

\* the lifecycle edge from one status to another, and the one action that takes it
Edge(from, to, act) ==
    \/ from = "PENDING_RETURN" /\ to = "PRODUCT_RECEIVED" /\ act = "mark_product_received"
    \/ from = "PRODUCT_RECEIVED" /\ to = "PROCESSING_REFUND" /\ act = "process_paypal_refund"
    \/ from = "PROCESSING_REFUND" /\ to = "COMPLETED" /\ act = "complete_refund"
    \/ /\ from \in {"PENDING_RETURN", "PRODUCT_RECEIVED", "PROCESSING_REFUND"}
       /\ to = "REJECTED"
       /\ act = "reject_refund"

\* C2: every status change of a bulk action follows a lifecycle edge and is made by
\* the action of that edge, so a request outside an action's source state keeps its
\* status.
C2_LifecycleEdges ==
    \A r \in Refunds :
        status[r] # before.status[r] => Edge(before.status[r], status[r], action)

\* complete_refund has taken the last edge for one request while another selected
\* request, rejected after its receipt, kept its status
C2_Witness ==
    /\ action = "complete_refund"
    /\ \E r1, r2 \in selected :
        /\ before.status[r1] = "PROCESSING_REFUND" /\ status[r1] = "COMPLETED"
        /\ before.status[r2] = "REJECTED" /\ status[r2] = "REJECTED"
        /\ product_received_at[r2] # None

\* C3: mark_product_received leaves status, product_received_at and
\* refund_completed_at of every selected request that is not PENDING_RETURN unchanged.
C3_MarkSkipsOthers ==
    action = "mark_product_received" =>
        \A r \in selected : before.status[r] # "PENDING_RETURN" => RowUnchanged(r)

\* mark_product_received has run on a selection holding a request received earlier
C3_Witness ==
    /\ action = "mark_product_received"
    /\ \E r \in selected :
        /\ before.status[r] = "PRODUCT_RECEIVED"
        /\ product_received_at[r] \notin {None, ActionTime}

\* C4: after mark_product_received every selected request that was PENDING_RETURN is
\* PRODUCT_RECEIVED, its product_received_at is the time of the action, and all of
\* its items are condition_acceptable, whatever they were before.
C4_MarkReceived ==
    action = "mark_product_received" =>
        \A r \in selected : before.status[r] = "PENDING_RETURN" =>
            /\ status[r] = "PRODUCT_RECEIVED"
            /\ product_received_at[r] = ActionTime
            /\ product_received_at[r] # None
            /\ \A i \in items(r) : condition_acceptable[i]

\* mark_product_received has just received a request with two items, one of which
\* was not acceptable before
C4_Witness ==
    /\ action = "mark_product_received"
    /\ \E r \in selected :
        /\ before.status[r] = "PENDING_RETURN"
        /\ Cardinality(items(r)) = 2
        /\ \E i, j \in items(r) :
            ~before.condition_acceptable[i] /\ before.condition_acceptable[j]
        /\ \A i \in items(r) : condition_acceptable[i]

\* C5: no bulk action ends with a helper's exception leaving the handler: every run
\* processes its rows and ends with its closing operator message.
C5_NothingRaises ==
    action # "none" =>
        /\ ~raised
        /\ message_log # <<>>
        /\ LastMessage(message_log).level # "ERROR"

\* C6: in complete_refund a PROCESSING_REFUND request on which process_rewards_refund
\* raises is left unchanged and not counted; every other selected PROCESSING_REFUND
\* request is COMPLETED with refund_completed_at the time of the action.
C6_CompleteIsolatesFailure ==
    action = "complete_refund" =>
        LET rows == {r \in selected : before.status[r] = "PROCESSING_REFUND"}
            bad == RaisedOn(helper_calls)
        IN /\ bad \subseteq rows
           /\ \A r \in bad : RowUnchanged(r) /\ earned_deducted[r] = before.earned_deducted[r]
           /\ \A r \in rows \ bad :
                /\ status[r] = "COMPLETED"
                /\ refund_completed_at[r] = ActionTime
                /\ product_received_at[r] = before.product_received_at[r]
           /\ updated = Cardinality(rows \ bad)
           /\ LastMessage(message_log).arg = Cardinality(rows \ bad)
           /\ ErrorsIn(message_log) = bad

\* complete_refund has run on two requests: the helper raised on the first, and the
\* one after it was completed
C6_Witness ==
    /\ action = "complete_refund"
    /\ updated = 1
    /\ helper_calls # <<>>
    /\ ~helper_calls[1].returned
    /\ \E r1, r2 \in selected :
        /\ r1 = helper_calls[1].refund
        /\ status[r1] = "PROCESSING_REFUND"
        /\ refund_completed_at[r1] = None
        /\ before.status[r2] = "PROCESSING_REFUND"
        /\ status[r2] = "COMPLETED"
        /\ refund_completed_at[r2] = ActionTime

\* C7: complete_refund never calls process_rewards_refund for a guest request in
\* PROCESSING_REFUND and still completes it, stamping refund_completed_at.
C7_CompleteGuest ==
    action = "complete_refund" =>
        \A r \in selected : (before.status[r] = "PROCESSING_REFUND" /\ ~user[r]) =>
            /\ r \notin CalledOn(helper_calls)
            /\ earned_deducted[r] = before.earned_deducted[r]
            /\ status[r] = "COMPLETED"
            /\ refund_completed_at[r] = ActionTime

\* complete_refund has just completed a guest request
C7_Witness ==
    /\ action = "complete_refund"
    /\ \E r \in selected :
        /\ ~user[r]
        /\ before.status[r] = "PROCESSING_REFUND"
        /\ status[r] = "COMPLETED"
        /\ refund_completed_at[r] = ActionTime
        /\ r \notin CalledOn(helper_calls)

\* C8: in mark_product_received the restock helper is called for every selected
\* PENDING_RETURN request; whichever calls raise, each of those requests is
\* PRODUCT_RECEIVED with product_received_at set, and there is one ERROR message per
\* request on which the helper raised.
C8_MarkIsolatesRestockFailure ==
    action = "mark_product_received" =>
        LET rows == {r \in selected : before.status[r] = "PENDING_RETURN"}
            bad == RaisedOn(helper_calls)
        IN /\ CalledOn(helper_calls) = rows
           /\ \A r \in rows :
                status[r] = "PRODUCT_RECEIVED" /\ product_received_at[r] = ActionTime
           /\ ErrorsIn(message_log) = bad
           /\ Len(message_log) = Cardinality(bad) + 1
           /\ ~raised

\* the helper raised on the first request of a batch of two; the second was received
\* and restocked all the same
C8_Witness ==
    /\ action = "mark_product_received"
    /\ Len(helper_calls) = 2
    /\ ~helper_calls[1].returned
    /\ helper_calls[2].returned
    /\ \A r \in selected :
        /\ before.status[r] = "PENDING_RETURN"
        /\ status[r] = "PRODUCT_RECEIVED"
        /\ product_received_at[r] = ActionTime
    /\ \E i \in items(helper_calls[2].refund) : restocked[i]
    /\ ErrorsIn(message_log) = {helper_calls[1].refund}

\* C9: mark_product_received updates exactly the selected PENDING_RETURN requests,
\* reports their number in its success message, and touches no other request.
C9_MarkCountsPending ==
    action = "mark_product_received" =>
        LET rows == {r \in selected : before.status[r] = "PENDING_RETURN"}
        IN /\ updated = Cardinality(rows)
           /\ LastMessage(message_log) =
                Msg("SUCCESS", "refund(s) marked as product received and items restocked.",
                    Cardinality(rows))
           /\ \A r \in rows : status[r] = "PRODUCT_RECEIVED"
           /\ \A r \in Refunds \ rows : RowUnchanged(r) /\ ItemsUnchanged(r)

\* a mixed batch: every selected PENDING_RETURN request is counted, and a selected
\* request in PROCESSING_REFUND is as it was
C9_Witness ==
    /\ action = "mark_product_received"
    /\ Cardinality(selected) = NumRefunds
    /\ updated = NumRefunds - 1
    /\ \E r \in selected :
        /\ before.status[r] = "PROCESSING_REFUND"
        /\ RowUnchanged(r)
        /\ \A o \in selected \ {r} :
            before.status[o] = "PENDING_RETURN" /\ status[o] = "PRODUCT_RECEIVED"

\* C10: restore_rewards_goodwill run again on a registered request with rewards_used > 0
\* whose rewards an earlier run restored: the customer's credit stays the amount of
\* the first restoration; when the helper returns, the request is counted as already
\* restored, and a selection of nothing but such requests gets the
\* 'No rewards restored' warning.
C10_RestoreTwice ==
    action = "restore_rewards_goodwill" =>
        LET again == {r \in selected :
                        user[r] /\ rewards_used[r] > 0 /\ before.rewards_restored[r]}
        IN /\ \A r \in again :
                /\ rewards_credit[r] = before.rewards_credit[r]
                /\ rewards_credit[r] = rewards_used[r]
           /\ ~raised =>
                /\ counts.already_restored_count = Cardinality(again)
                /\ (again = selected) =>
                      message_log =
                        <<[level |-> "WARNING", text |-> "No rewards restored", arg |-> 0,
                           parts |-> <<Part("already had rewards restored",
                                            Cardinality(again), 0)>>]>>

\* the second run on one request: counted as already restored, warned, credited once
C10_Witness ==
    /\ action = "restore_rewards_goodwill"
    /\ ~raised
    /\ \E r \in Refunds :
        /\ selected = {r}
        /\ user[r] /\ rewards_used[r] > 0
        /\ before.rewards_restored[r]
        /\ rewards_credit[r] = rewards_used[r]
    /\ counts.already_restored_count = 1
    /\ counts.restored_count = 0
    /\ LastMessage(message_log).text = "No rewards restored"

\* the sum of rewards_used over a set of requests
RECURSIVE RewardsUsedOf(_)
RewardsUsedOf(S) ==
    IF S = {} THEN 0
    ELSE LET r == CHOOSE x \in S : TRUE IN rewards_used[r] + RewardsUsedOf(S \ {r})

\* the selected requests restore_used_rewards is meant for, and those among them
\* whose rewards the last action restored
Eligible == {r \in selected : user[r] /\ rewards_used[r] > 0}
RestoredNow == {r \in Eligible : ~before.rewards_restored[r] /\ rewards_restored[r]}

\* C11: a run of restore_rewards_goodwill that ends normally puts every selected
\* request in exactly one of the four buckets (the counters add up to the size of the
\* selection), and the amount in its message is the sum of rewards_used over the
\* restored bucket only.
C11_BucketsAndTotal ==
    (action = "restore_rewards_goodwill" /\ ~raised) =>
        /\ counts.restored_count = Cardinality(RestoredNow)
        /\ counts.already_restored_count = Cardinality(Eligible \ RestoredNow)
        /\ counts.guest_count = Cardinality({r \in selected : ~user[r]})
        /\ counts.no_rewards_count =
                Cardinality({r \in selected : user[r] /\ rewards_used[r] <= 0})
        /\ counts.restored_count + counts.already_restored_count
             + counts.no_rewards_count + counts.guest_count = Cardinality(selected)
        /\ counts.restored_count > 0 =>
                LastMessage(message_log).parts[1].amount = RewardsUsedOf(RestoredNow)

\* the requests on which a call of the helper returned
ReturnedOn(calls, helper) ==
    {calls[k].refund : k \in {j \in 1..Len(calls) :
                                calls[j].helper = helper /\ calls[j].returned}}

\* C12: with a restock helper that restocks the acceptable, not yet restocked items
\* of the request and marks them restocked, every item's inventory is increased at
\* most once, and only by a returned helper call of mark_product_received or
\* manual_restock_items on the item's request.
C12_RestockAtMostOnce ==
    \A i \in Items :
        /\ stock_added[i] <= 1
        /\ restocked[i] <=> stock_added[i] = 1
        /\ stock_added[i] # before.stock_added[i] =>
            /\ action \in {"mark_product_received", "manual_restock_items"}
            /\ refund_request(i) \in ReturnedOn(helper_calls, "restock_refunded_items")
            /\ condition_acceptable[i]
            /\ ~before.restocked[i]

\* manual_restock_items has called the helper again on a request whose item
\* mark_product_received had restocked: the item's inventory stays increased once
C12_Witness ==
    /\ action = "manual_restock_items"
    /\ \E r \in selected :
        /\ r \in ReturnedOn(helper_calls, "restock_refunded_items")
        /\ \E i \in items(r) :
            /\ before.restocked[i]
            /\ before.stock_added[i] = 1
            /\ stock_added[i] = 1

\* C14: manual_restock_items changes no request's status or timestamps, calls
\* restock_refunded_items exactly for the selected requests in PRODUCT_RECEIVED,
\* PROCESSING_REFUND or COMPLETED, reports the number of calls that returned, and
\* gives the warning instead when that number is 0.
C14_ManualRestock ==
    action = "manual_restock_items" =>
        LET rows == {r \in selected : before.status[r] \in
                        {"PRODUCT_RECEIVED", "PROCESSING_REFUND", "COMPLETED"}}
            done == ReturnedOn(helper_calls, "restock_refunded_items")
        IN /\ \A r \in Refunds : RowUnchanged(r)
           /\ CalledOn(helper_calls) = rows
           /\ Len(helper_calls) = Cardinality(rows)
           /\ \A k \in 1..Len(helper_calls) : helper_calls[k].helper = "restock_refunded_items"
           /\ updated = Cardinality(done)
           /\ ErrorsIn(message_log) = rows \ done
           /\ LastMessage(message_log) =
                IF Cardinality(done) > 0
                THEN Msg("SUCCESS", "Manually restocked items for refund(s).", Cardinality(done))
                ELSE Msg("WARNING", "No items were restocked.", 0)
           /\ ~raised

\* manual_restock_items has run on a REJECTED request that was never received, which
\* it skipped, and on a received one for which the helper raised: it warns
C14_Witness ==
    /\ action = "manual_restock_items"
    /\ updated = 0
    /\ LastMessage(message_log).level = "WARNING"
    /\ \E r1, r2 \in selected :
        /\ before.status[r1] \in {"PENDING_RETURN", "REJECTED"}
        /\ r1 \notin CalledOn(helper_calls)
        /\ before.status[r2] = "PROCESSING_REFUND"
        /\ r2 \in RaisedOn(helper_calls)

\* C15: restore_rewards_goodwill takes the selected requests whatever their status,
\* changes no request's status or timestamps, and calls restore_used_rewards only
\* for requests with a user and rewards_used > 0: for all of them when the run ends
\* normally, never for a guest request or one with no rewards used.
C15_RestoreIndependentOfStatus ==
    action = "restore_rewards_goodwill" =>
        /\ \A r \in Refunds : RowUnchanged(r)
        /\ CalledOn(helper_calls) \subseteq Eligible
        /\ \A k \in 1..Len(helper_calls) : helper_calls[k].helper = "restore_used_rewards"
        /\ ~raised => CalledOn(helper_calls) = Eligible
        /\ ~raised => counts.guest_count + counts.no_rewards_count
                        = Cardinality(selected \ Eligible)

\* restore_rewards_goodwill has restored the rewards of a COMPLETED request and
\* passed over a guest request in the same selection
C15_Witness ==
    /\ action = "restore_rewards_goodwill"
    /\ ~raised
    /\ \E r1, r2 \in selected :
        /\ before.status[r1] = "COMPLETED"
        /\ r1 \in RestoredNow
        /\ ~user[r2]
        /\ r2 \notin CalledOn(helper_calls)
        /\ counts.guest_count = 1

\* C16: reject_refund sets REJECTED exactly the selected requests that were neither
\* COMPLETED nor REJECTED, reports their number, calls no helper, and leaves
\* timestamps, item flags, inventory and rewards as they were.
C16_RejectOnly ==
    action = "reject_refund" =>
        LET rows == {r \in selected : ~Terminal(before.status[r])}
        IN /\ \A r \in rows : status[r] = "REJECTED"
           /\ \A r \in Refunds \ rows : status[r] = before.status[r]
           /\ updated = Cardinality(rows)
           /\ message_log = <<Msg("WARNING", "refund(s) rejected.", Cardinality(rows))>>
           /\ helper_calls = <<>>
           /\ ~raised
           /\ \A r \in Refunds :
                /\ product_received_at[r] = before.product_received_at[r]
                /\ refund_completed_at[r] = before.refund_completed_at[r]
                /\ ItemsUnchanged(r)
                /\ rewards_restored[r] = before.rewards_restored[r]
                /\ rewards_credit[r] = before.rewards_credit[r]
                /\ earned_deducted[r] = before.earned_deducted[r]

\* reject_refund has rejected one received, restocked request and left the other,
\* unselected and not terminal, alone
C16_Witness ==
    /\ action = "reject_refund"
    /\ updated = 1
    /\ \E r1, r2 \in Refunds :
        /\ selected = {r1}
        /\ before.status[r1] = "PROCESSING_REFUND"
        /\ status[r1] = "REJECTED"
        /\ product_received_at[r1] # None
        /\ \E i \in items(r1) : restocked[i] /\ stock_added[i] = 1
        /\ r2 # r1
        /\ status[r2] = "PRODUCT_RECEIVED"

\* C17: for requests created in PENDING_RETURN with both timestamps unset, after any
\* sequence of bulk actions refund_completed_at is set exactly when the status is
\* COMPLETED, product_received_at is set whenever the status is PRODUCT_RECEIVED,
\* PROCESSING_REFUND or COMPLETED, and it is unset whenever the status is
\* PENDING_RETURN.
C17_TimestampsFollowStatus ==
    \A r \in Refunds :
        /\ refund_completed_at[r] # None <=> status[r] = "COMPLETED"
        /\ status[r] \in {"PRODUCT_RECEIVED", "PROCESSING_REFUND", "COMPLETED"}
                => product_received_at[r] # None
        /\ status[r] = "PENDING_RETURN" => product_received_at[r] = None

\* one request has gone through to COMPLETED, stamped twice, another was rejected
\* in PROCESSING_REFUND and carries the receipt stamp only
C17_Witness ==
    \E r1, r2 \in Refunds :
        /\ status[r1] = "COMPLETED"
        /\ product_received_at[r1] # None
        /\ refund_completed_at[r1] > product_received_at[r1]
        /\ status[r2] = "REJECTED"
        /\ before.status[r2] = "PROCESSING_REFUND"
        /\ product_received_at[r2] # None
        /\ refund_completed_at[r2] = None

\* C18: process_rewards_refund returns at most once for any request, is called by
\* complete_refund only, and only on requests that are in PROCESSING_REFUND; the
\* request it returned for is COMPLETED from then on.
C18_EarnedDeductedOnce ==
    /\ \A r \in Refunds :
        /\ earned_deducted[r] <= 1
        /\ earned_deducted[r] = 1 => (status[r] = "COMPLETED" /\ user[r])
    /\ \A k \in 1..Len(helper_calls) :
        helper_calls[k].helper = "process_rewards_refund" =>
            /\ action = "complete_refund"
            /\ helper_calls[k].refund \in selected
            /\ before.status[helper_calls[k].refund] = "PROCESSING_REFUND"
            /\ before.earned_deducted[helper_calls[k].refund] = 0

\* complete_refund has run again on a selection holding a request it completed
\* before: the helper is called for the other request only
C18_Witness ==
    /\ action = "complete_refund"
    /\ \E r1, r2 \in selected :
        /\ before.status[r1] = "COMPLETED"
        /\ before.earned_deducted[r1] = 1
        /\ earned_deducted[r1] = 1
        /\ r1 \notin CalledOn(helper_calls)
        /\ r2 \in ReturnedOn(helper_calls, "process_rewards_refund")
        /\ earned_deducted[r2] = 1

\* C19: restock_refunded_items is called by mark_product_received and
\* manual_restock_items only, and only on requests whose product_received_at is set;
\* no item of a request that was never marked received (one rejected straight from
\* PENDING_RETURN, say) is restocked.
C19_NoRestockBeforeReceipt ==
    /\ \A k \in 1..Len(helper_calls) :
        helper_calls[k].helper = "restock_refunded_items" =>
            /\ action \in {"mark_product_received", "manual_restock_items"}
            /\ product_received_at[helper_calls[k].refund] # None
    /\ \A r \in Refunds :
        product_received_at[r] = None =>
            \A i \in items(r) : stock_added[i] = 0 /\ ~restocked[i]

\* manual_restock_items has run on a request rejected straight from PENDING_RETURN
\* that has an acceptable item: the helper was not called and nothing is restocked
C19_Witness ==
    /\ action = "manual_restock_items"
    /\ \E r \in selected :
        /\ before.status[r] = "REJECTED"
        /\ product_received_at[r] = None
        /\ r \notin CalledOn(helper_calls)
        /\ \E i \in items(r) : condition_acceptable[i] /\ ~restocked[i] /\ stock_added[i] = 0

\* the status a handler assigns before it saves
Target(act) ==
    CASE act = "mark_product_received" -> "PRODUCT_RECEIVED"
      [] act = "process_paypal_refund" -> "PROCESSING_REFUND"
      [] act = "complete_refund" -> "COMPLETED"
      [] OTHER -> "REJECTED"

\* the last step was an iteration that reached refund.save()
RowSaved ==
    /\ action \in RaceActions
    /\ action = "complete_refund" => RaisedOn(helper_calls) = {}

\* C13: with two administrators' actions interleaved nothing guards a row between
\* the moment a handler loads it and the moment it saves it: the save puts the
\* handler's status on the row whatever another action has written there since, and
\* reject_refund's UPDATE does the same to every selected row that is not terminal
\* when it runs.  The last write wins.
C13_LastWriteWins ==
    /\ RowSaved => \A r \in selected : status[r] = Target(action)
    /\ action = "reject_refund" =>
        \A r \in selected : ~Terminal(before.status[r]) => status[r] = "REJECTED"

\* complete_refund, in flight since the request was in PROCESSING_REFUND, has saved
\* COMPLETED over the REJECTED that reject_refund wrote in between
C13_Witness ==
    /\ action = "complete_refund"
    /\ RowSaved
    /\ \E r \in selected :
        /\ before.status[r] = "REJECTED"
        /\ status[r] = "COMPLETED"
        /\ refund_completed_at[r] = ActionTime
====
